---- MODULE Spec2Model ----
(***************************************************************************)
(* RES HR Copilot: the indexing pipeline (ChangeFeedSync, AclResolver,     *)
(* IndexWriter) and the portal's query routes (/api/search, /api/chat).    *)
(*                                                                         *)
(* The Python Function App (delta_sync, acl_resolver.py, index_pusher.py)  *)
(* is not among the sources at hand. Its orchestration is modelled from    *)
(* the design document; where the repository's own documents describe its  *)
(* behaviour (ARCHITECTURE.md, the runbook) the model follows them.        *)
(***************************************************************************)
EXTENDS Integers, Sequences, FiniteSets, TLC

VARIABLES feed, index, cursor, lease, run, report, search, chat, panel, inflight, res,
          spage, shell

syncVars == <<feed, index, cursor, lease, run, report>>

portalVars == <<search, chat>>

panelVars == <<panel, inflight, shell>>

aclVars == <<res>>

pageVars == <<spage>>

nonSyncVars == <<search, chat, panel, inflight, res, spage, shell>>

vars == <<feed, index, cursor, lease, run, report, search, chat, panel, inflight, res,
          spage, shell>>

----------------------------------------------------------------------------
(* Bounds of the model *)

MaxFeed == 3

MaxChunks == 2

MaxAttempts == 2

Docs == {"d1", "d2"}

Groups == {"g1", "g2"}

(* d1 changes its permissions and its size between versions, d2 does not *)
AclChoices(d) == IF d = "d1" THEN {{"g1"}, {"g2"}} ELSE {{"g2"}}

SizeChoices(d) == IF d = "d1" THEN 1..MaxChunks ELSE {1}

Triggers == {"timer", "webhook"}

Positions == 1..MaxFeed

NoLease == "none"

----------------------------------------------------------------------------
(* The document store's change feed: a log of items, the cursor a position *)

UpsertItem(d, n, g) == [doc |-> d, deleted |-> FALSE, n |-> n, groups |-> g]

DeleteItem(d) == [doc |-> d, deleted |-> TRUE, n |-> 0, groups |-> {}]

PositionsOf(d) == {p \in 1..Len(feed) : feed[p].doc = d}

IsDeleted(d) == \E p \in PositionsOf(d) : feed[p].deleted

Exists(d) == PositionsOf(d) # {} /\ ~IsDeleted(d)

----------------------------------------------------------------------------
(* Chunks and the search index *)

(* chunkId is deterministic from the document and the chunk's sequence number *)
ChunkId(d, k) == <<d, k>>

(* ver stands for the chunk's text: the text of chunk k of a document version *)
Chunk(d, k, ver, g) == [id |-> ChunkId(d, k), doc |-> d, ver |-> ver, groupIds |-> g]

NewChunks(p, g) == {Chunk(feed[p].doc, k, p, g) : k \in 1..feed[p].n}

Ids(chunks) == {c.id : c \in chunks}

ChunksOf(idx, d) == {c \in idx : c.doc = d}

Content(chunks) == {<<c.id, c.ver>> : c \in chunks}

UpsertKeepingOld(idx, chunks) == idx \cup chunks

(* IndexWriter.upsert: a full-record replace keyed by chunkId *)
Upsert(idx, chunks) == {c \in idx : c.id \notin Ids(chunks)} \cup chunks

DeleteAbsentNothing(idx, d, keep) == idx

(* IndexWriter: delete the document's chunk ids absent from the new chunk set *)
DeleteAbsent(idx, d, keep) == {c \in idx : c.doc # d \/ c.id \in keep}

DeleteFirstChunkOnly(idx, d) == {c \in idx : c.id # ChunkId(d, 1)}

(* CleanDeletedDocuments: delete every chunk whose documentId matches *)
DeleteByDocument(idx, d) == {c \in idx : c.doc # d}

----------------------------------------------------------------------------
(* ChangeFeedSync.run(libraryId), one run per trigger *)

NoRun == [active |-> FALSE, from |-> 0, upto |-> 0,
          st |-> [p \in Positions |-> "none"],
          att |-> [p \in Positions |-> 0],
          acl |-> [p \in Positions |-> {}],
          aclOk |-> [p \in Positions |-> FALSE]]

Batch(t) == IF run[t].active THEN run[t].from..run[t].upto ELSE {}

SettledOnlyApplied(t, p) == run[t].st[p] = "applied"

(* An item is settled once it is applied or recorded as failed *)
Settled(t, p) == run[t].st[p] \in {"applied", "failed"}

FailedItems(t) == {p \in Batch(t) : run[t].st[p] = "failed"}

Min(S) == CHOOSE x \in S : \A y \in S : x <= y

Max(S) == CHOOSE x \in S : \A y \in S : x >= y

InitSync ==
    /\ feed = <<>>
    /\ index = {}
    /\ cursor = 0
    /\ lease = NoLease
    /\ run = [t \in Triggers |-> NoRun]
    /\ report = 0

(* The document store: a document is created or modified *)
StoreUpsert(d, n, g) ==
    /\ Len(feed) < MaxFeed
    /\ ~IsDeleted(d)
    /\ feed' = Append(feed, UpsertItem(d, n, g))
    /\ UNCHANGED <<index, cursor, lease, run, report, nonSyncVars>>

(* The document store: a document is deleted, for good *)
StoreDelete(d) ==
    /\ Len(feed) < MaxFeed
    /\ Exists(d)
    /\ feed' = Append(feed, DeleteItem(d))
    /\ UNCHANGED <<index, cursor, lease, run, report, nonSyncVars>>

MayStartAlways(t) == ~run[t].active

(* Single-writer discipline: a run works only while it holds the library's lease *)
MayStart(t) == lease = NoLease

(* A trigger fires (timer or webhook): the run takes the lease, loads the
   cursor and the change set since it *)
StartRun(t) ==
    /\ MayStart(t)
    /\ lease' = t
    /\ run' = [run EXCEPT ![t] =
                 [NoRun EXCEPT !.active = TRUE,
                               !.from = cursor + 1,
                               !.upto = Len(feed),
                               !.st = [p \in Positions |->
                                         IF p > cursor /\ p <= Len(feed)
                                         THEN "pending" ELSE "none"]]]
    /\ UNCHANGED <<feed, index, cursor, report, nonSyncVars>>

(* A trigger that finds the lease taken does no work *)
SkipRun(t) ==
    /\ lease # NoLease
    /\ lease # t
    /\ UNCHANGED vars

(* Items of different documents are processed in any order, the items of one
   document in feed order *)
Ready(t, p) ==
    /\ run[t].active
    /\ p \in Batch(t)
    /\ run[t].st[p] = "pending"
    /\ \A q \in Batch(t) : (q < p /\ feed[q].doc = feed[p].doc) => Settled(t, q)

(* AclResolver succeeded: the document's groups *)
ResolveAclOk(t, p) ==
    /\ Ready(t, p)
    /\ ~feed[p].deleted
    /\ run' = [run EXCEPT ![t].st[p] = "acl", ![t].acl[p] = feed[p].groups,
                          ![t].aclOk[p] = TRUE]
    /\ UNCHANGED <<feed, index, cursor, lease, report, nonSyncVars>>

(* AclResolver failed: the pipeline goes on with an empty allowed_groups *)
FailedAclGroups(t, p) == {}

ResolveAclFail(t, p) ==
    /\ Ready(t, p)
    /\ ~feed[p].deleted
    /\ run' = [run EXCEPT ![t].st[p] = "acl", ![t].acl[p] = FailedAclGroups(t, p),
                          ![t].aclOk[p] = FALSE]
    /\ UNCHANGED <<feed, index, cursor, lease, report, nonSyncVars>>

(* Upsert the document's chunks with allowed_groups from the ACL step, then
   delete its chunk ids absent from the new chunk set *)
WriteChunks(t, p) ==
    /\ run[t].active
    /\ p \in Batch(t)
    /\ run[t].st[p] = "acl"
    /\ index' = DeleteAbsent(Upsert(index, NewChunks(p, run[t].acl[p])),
                             feed[p].doc, Ids(NewChunks(p, run[t].acl[p])))
    /\ run' = [run EXCEPT ![t].st[p] = "applied", ![t].att[p] = 0,
                          ![t].acl[p] = {}, ![t].aclOk[p] = FALSE]
    /\ UNCHANGED <<feed, cursor, lease, report, nonSyncVars>>

(* Deletion-candidate: delete every chunk of the document *)
ApplyDelete(t, p) ==
    /\ Ready(t, p)
    /\ feed[p].deleted
    /\ index' = DeleteByDocument(index, feed[p].doc)
    /\ run' = [run EXCEPT ![t].st[p] = "applied", ![t].att[p] = 0]
    /\ UNCHANGED <<feed, cursor, lease, report, nonSyncVars>>

(* An attempt at an item fails (extraction error, dependency timeout): it is
   retried, and after MaxAttempts attempts recorded as a failed item *)
AfterFailureRetryAgain(a) == "pending"

(* After the N-th failed attempt the item is a persistent failed item *)
AfterFailure(a) == IF a >= MaxAttempts THEN "failed" ELSE "pending"

ItemFail(t, p) ==
    /\ Ready(t, p)
    /\ run' = [run EXCEPT ![t].att[p] = @ + 1,
                          ![t].st[p] = AfterFailure(run[t].att[p] + 1)]
    /\ UNCHANGED <<feed, index, cursor, lease, report, nonSyncVars>>

BatchSettled(t) == \A p \in Batch(t) : Settled(t, p)

OldestFailed(t) == IF FailedItems(t) = {} THEN 0 ELSE Min(FailedItems(t))

NewTokenBatchTail(t) == run[t].upto

(* The cursor moves to just before the oldest failed item, or to the batch
   tail when nothing failed *)
NewToken(t) == IF FailedItems(t) = {} THEN run[t].upto ELSE OldestFailed(t) - 1

MayWriteCursorEarly(t) == run[t].active

(* The cursor is written once the whole batch has settled *)
MayWriteCursor(t) == run[t].active /\ BatchSettled(t)

Finish(t) ==
    /\ MayWriteCursor(t)
    /\ cursor' = NewToken(t)
    /\ report' = OldestFailed(t)
    /\ lease' = NoLease
    /\ run' = [run EXCEPT ![t] = NoRun]
    /\ UNCHANGED <<feed, index, nonSyncVars>>

(* The run dies mid-batch: what it wrote to the index stays, its in-memory
   state and its lease are gone *)
Crash(t) ==
    /\ run[t].active
    /\ ~BatchSettled(t)
    /\ lease' = NoLease
    /\ run' = [run EXCEPT ![t] = NoRun]
    /\ UNCHANGED <<feed, index, cursor, report, nonSyncVars>>

SyncNext ==
    \/ \E d \in Docs : \E n \in SizeChoices(d), g \in AclChoices(d) : StoreUpsert(d, n, g)
    \/ \E d \in Docs : StoreDelete(d)
    \/ \E t \in Triggers : StartRun(t)
    \/ \E t \in Triggers : SkipRun(t)
    \/ \E t \in Triggers, p \in Positions : ResolveAclOk(t, p)
    \/ \E t \in Triggers, p \in Positions : ResolveAclFail(t, p)
    \/ \E t \in Triggers, p \in Positions : WriteChunks(t, p)
    \/ \E t \in Triggers, p \in Positions : ApplyDelete(t, p)
    \/ \E t \in Triggers, p \in Positions : ItemFail(t, p)
    \/ \E t \in Triggers : Finish(t)
    \/ \E t \in Triggers : Crash(t)

----------------------------------------------------------------------------
(* The portal's routes *)

NoSearch == [handled |-> FALSE, userGroups |-> {}, department |-> "All",
             docType |-> "All", endpoint |-> FALSE, key |-> FALSE, called |-> FALSE,
             outcome |-> "none",
             filter |-> [department |-> "All", hasGroups |-> FALSE, groups |-> {}],
             results |-> {}, source |-> "none", trace |-> <<>>]

NoChat == [handled |-> FALSE, message |-> "", endpoint |-> FALSE, key |-> FALSE,
           called |-> FALSE, outcome |-> "none", response |-> "",
           citations |-> 0, source |-> "none", retrieved |-> {}]

InitPortal ==
    /\ search = NoSearch
    /\ chat = NoChat

(* A sample of the index behind /api/search: every pattern of allowed groups *)
Corpus ==
    { [id |-> 1, department |-> "HR", docType |-> "Policy", groupIds |-> {"g1"}],
      [id |-> 2, department |-> "HR", docType |-> "Benefits", groupIds |-> {"g2"}],
      [id |-> 3, department |-> "Finance", docType |-> "Policy", groupIds |-> {"g1", "g2"}] }

Departments == {"All", "HR", "Finance"}

DocTypes == {"All", "Policy", "Benefits"}

(* lib/mock-data: mockSearchResults *)
MockSearchResults ==
    { [id |-> 101, department |-> "HR", docType |-> "Policy", groupIds |-> {}],
      [id |-> 102, department |-> "HR", docType |-> "Benefits", groupIds |-> {}],
      [id |-> 103, department |-> "Finance", docType |-> "Policy", groupIds |-> {}],
      [id |-> 104, department |-> "Finance", docType |-> "Reference", groupIds |-> {}] }

(* The search service applies the filter expression of the request *)
Matching(filter) ==
    {c \in Corpus :
        /\ filter.department = "All" \/ c.department = filter.department
        /\ ~filter.hasGroups \/ c.groupIds \cap filter.groups # {}}

(* azureBody.filter: the department clause, set only when department # "All" *)
AzureFilter(userGroups, department, docType) ==
    [department |-> department, hasGroups |-> FALSE, groups |-> {}]

MockSearch(department, docType) ==
    {r \in MockSearchResults :
        /\ department = "All" \/ r.department = department
        /\ docType = "All" \/ r.docType = docType}

AzureOutcomes == {"ok", "notOk", "throws"}

UseAzureEither(endpoint, key) == endpoint \/ key

(* process.env.AZURE_..._ENDPOINT && process.env.AZURE_..._KEY *)
UseAzure(endpoint, key) == endpoint /\ key

AzureAnswersUnlessThrown(configured, outcome) == configured /\ outcome # "throws"

(* The Azure response is used only when the call returned and res.ok holds *)
AzureAnswers(configured, outcome) == configured /\ outcome = "ok"

(* The stages a search request passes in the route: the body is read; with
   Azure configured the semantic query is sent (retrieval and reranking in
   one call); unless Azure answered OK the mock data is filtered and scored;
   the response is returned. The caller's groups are resolved nowhere. *)
RouteStages(configured, outcome) ==
    <<"Received">>
    \o (IF configured
        THEN IF outcome = "ok" THEN <<"Retrieved", "Reranked">> ELSE <<"Retrieved">>
        ELSE <<>>)
    \o (IF AzureAnswers(configured, outcome) THEN <<>> ELSE <<"Retrieved", "Reranked">>)
    \o <<"Done">>

(* POST /api/search. hits: the documents the service ranks into its top 10 *)
SearchRoute(userGroups, department, docType, endpoint, key, outcome, hits) ==
    LET configured == UseAzure(endpoint, key) IN
    /\ hits \subseteq Matching(AzureFilter(userGroups, department, docType))
    /\ ~AzureAnswers(configured, outcome) => hits = {}
    /\ search' = [handled |-> TRUE, userGroups |-> userGroups,
                  department |-> department, docType |-> docType,
                  endpoint |-> endpoint, key |-> key, called |-> configured,
                  outcome |-> IF configured THEN outcome ELSE "none",
                  filter |-> IF configured
                             THEN AzureFilter(userGroups, department, docType)
                             ELSE NoSearch.filter,
                  results |-> IF AzureAnswers(configured, outcome)
                              THEN hits ELSE MockSearch(department, docType),
                  source |-> IF AzureAnswers(configured, outcome) THEN "azure" ELSE "mock",
                  trace |-> RouteStages(configured, outcome)]
    /\ UNCHANGED <<syncVars, chat, panelVars, aclVars, pageVars>>

Messages == {"pto", "other"}

(* What the chat model may send back: an answer, a refusal, or no choice *)
ModelTexts == {"answer", "declined", ""}

(* copilot/system-prompt.md, Fallback Response *)
FallbackMessage == "fallback"

(* copilot/system-prompt.md, Sensitive Topic Response Template *)
SensitiveRedirect == "redirect"

(* lib/mock-data: getMockChatResponse, keyword-matched responses with source
   citations *)
MockChatResponse(message) ==
    IF message = "pto" THEN [response |-> "mock-pto", citations |-> 2]
    ELSE [response |-> "mock-default", citations |-> 1]

(* POST /api/chat. The route retrieves nothing: the model is sent the system
   prompt, the history and the message *)
ChatResponse(message, endpoint, key, outcome, content) ==
    LET configured == UseAzure(endpoint, key) IN
    [handled |-> TRUE, message |-> message, endpoint |-> endpoint, key |-> key,
     called |-> configured, outcome |-> IF configured THEN outcome ELSE "none",
     response |-> IF AzureAnswers(configured, outcome)
                  THEN content ELSE MockChatResponse(message).response,
     citations |-> IF AzureAnswers(configured, outcome)
                   THEN 0 ELSE MockChatResponse(message).citations,
     source |-> IF AzureAnswers(configured, outcome) THEN "azure" ELSE "mock",
     retrieved |-> {}]

ChatRoute(message, endpoint, key, outcome, content) ==
    /\ ~AzureAnswers(UseAzure(endpoint, key), outcome) => content = ""
    /\ chat' = ChatResponse(message, endpoint, key, outcome, content)
    /\ UNCHANGED <<syncVars, search, panelVars, aclVars, pageVars>>

PortalNext ==
    \/ \E ug \in SUBSET Groups, d \in Departments, ty \in DocTypes, ep \in BOOLEAN,
          k \in BOOLEAN, o \in AzureOutcomes, h \in SUBSET Corpus :
          SearchRoute(ug, d, ty, ep, k, o, h)
    \/ \E m \in Messages, ep \in BOOLEAN, k \in BOOLEAN, o \in AzureOutcomes,
          c \in ModelTexts : ChatRoute(m, ep, k, o, c)

----------------------------------------------------------------------------
(* The chat panel (ChatPanel.tsx) *)

MaxMessages == 5

(* What can be typed or handed to sendMessage *)
Inputs == {"", " ", "pto ", "other"}

(* String.prototype.trim *)
Trim(text) ==
    CASE text = " " -> ""
      [] text = "pto " -> "pto"
      [] OTHER -> text

WelcomeMessage == [kind |-> "welcome", role |-> "assistant", content |-> "welcome",
                   citations |-> 0]

UserMessage(text) == [kind |-> "user", role |-> "user", content |-> Trim(text),
                      citations |-> 0]

AssistantMessage(data) == [kind |-> "assistant", role |-> "assistant",
                           content |-> data.response, citations |-> data.citations]

ErrorMessageFromUser == [kind |-> "error", role |-> "user", content |-> "sorry",
                         citations |-> 0]

(* The fixed apology of sendMessage's catch *)
ErrorMessage == [kind |-> "error", role |-> "assistant", content |-> "sorry",
                 citations |-> 0]

InitPanel ==
    /\ panel = [messages |-> <<WelcomeMessage>>, input |-> "", loading |-> FALSE]
    /\ inflight = <<>>
    /\ shell = [open |-> FALSE, initialQuery |-> "", sent |-> FALSE]

Remove(seq, i) == [j \in 1..(Len(seq) - 1) |-> IF j < i THEN seq[j] ELSE seq[j + 1]]

(* onChange of the input box, which is rendered while the panel is open and
   disabled while loading *)
SetInput(text) ==
    /\ shell.open
    /\ ~panel.loading
    /\ panel' = [panel EXCEPT !.input = text]
    /\ UNCHANGED <<syncVars, portalVars, inflight, shell, aclVars, pageVars>>

AcceptsWhileLoading(text) == Trim(text) # ""

(* if (!text.trim() || loading) return *)
Accepts(text) == Trim(text) # "" /\ ~panel.loading

(* sendMessage up to the await of fetch: what it does to the panel *)
Send(text) ==
    IF Accepts(text)
    THEN /\ Len(panel.messages) + 2 <= MaxMessages
         /\ panel' = [messages |-> Append(panel.messages, UserMessage(text)),
                      input |-> "", loading |-> TRUE]
         /\ inflight' = Append(inflight, [message |-> Trim(text), hung |-> FALSE])
    ELSE UNCHANGED <<panel, inflight>>

SendMessage(text) ==
    /\ Send(text)
    /\ UNCHANGED <<syncVars, portalVars, shell, aclVars, pageVars>>

(* handleSubmit: the form submits while its button is enabled *)
Submit ==
    /\ shell.open
    /\ ~(panel.loading \/ Trim(panel.input) = "")
    /\ SendMessage(panel.input)

(* a suggested prompt, offered while only the welcome message is shown *)
ClickPrompt ==
    /\ shell.open
    /\ Len(panel.messages) = 1
    /\ SendMessage("other")

AfterSettleStillLoading(p, message) ==
    [p EXCEPT !.messages = Append(@, message)]

(* setMessages((prev) => [...prev, message]) in try or catch, then
   setLoading(false) in finally *)
AfterSettle(p, message) ==
    [p EXCEPT !.messages = Append(@, message), !.loading = FALSE]

(* The route answers request i and the response body parses: the rest of
   sendMessage's try block, then finally *)
FetchResolve(i, endpoint, key, outcome, content) ==
    /\ i \in 1..Len(inflight)
    /\ ~inflight[i].hung
    /\ ~AzureAnswers(UseAzure(endpoint, key), outcome) => content = ""
    /\ chat' = ChatResponse(inflight[i].message, endpoint, key, outcome, content)
    /\ panel' = AfterSettle(panel, AssistantMessage(chat'))
    /\ inflight' = Remove(inflight, i)
    /\ UNCHANGED <<syncVars, search, shell, aclVars, pageVars>>

FetchFailures == {"rejects", "unparsable"}

(* fetch rejects, or res.json() throws on a body that is not JSON: catch, then
   finally *)
FetchFail(i, how) ==
    /\ i \in 1..Len(inflight)
    /\ ~inflight[i].hung
    /\ panel' = AfterSettle(panel, ErrorMessage)
    /\ inflight' = Remove(inflight, i)
    /\ UNCHANGED <<syncVars, portalVars, shell, aclVars, pageVars>>

(* The route's call to Azure OpenAI is never answered: the route's fetch
   carries no signal, and neither does the panel's *)
AzureHangs(i) ==
    /\ i \in 1..Len(inflight)
    /\ ~inflight[i].hung
    /\ inflight' = [inflight EXCEPT ![i].hung = TRUE]
    /\ UNCHANGED <<syncVars, portalVars, panel, shell, aclVars, pageVars>>

InitialQueries == {" ", "pto ", "other"}

EffectFiresAlways(sh) == sh.open /\ sh.initialQuery # ""

(* if (open) { if (initialQuery && !initialQuerySent.current) ... } *)
EffectFires(sh) == sh.open /\ sh.initialQuery # "" /\ ~sh.sent

(* The initial-query effect after a render with the props sh: it marks the
   query as sent and calls sendMessage. The effect also runs again whenever
   loading or messages change; its condition is then false, every change of
   open or initialQuery having run it already. *)
InitialQueryEffect(sh) ==
    IF EffectFires(sh)
    THEN /\ shell' = [sh EXCEPT !.sent = TRUE]
         /\ Send(sh.initialQuery)
    ELSE /\ shell' = sh
         /\ UNCHANGED <<panel, inflight>>

(* Navbar or the floating button: setChatOpen(true) *)
OpenPanel ==
    /\ ~shell.open
    /\ InitialQueryEffect([shell EXCEPT !.open = TRUE])
    /\ UNCHANGED <<syncVars, portalVars, aclVars, pageVars>>

(* onClose: setChatOpen(false) *)
ClosePanel ==
    /\ shell.open
    /\ InitialQueryEffect([shell EXCEPT !.open = FALSE])
    /\ UNCHANGED <<syncVars, portalVars, aclVars, pageVars>>

(* 'Ask AI' or 'Ask about this': the page sets chatQuery, which the shell
   passes on as initialQuery *)
SetInitialQuery(q) ==
    /\ q # shell.initialQuery
    /\ InitialQueryEffect([shell EXCEPT !.initialQuery = q])
    /\ UNCHANGED <<syncVars, portalVars, aclVars, pageVars>>

Respond ==
    \/ \E i \in 1..MaxMessages, ep \in BOOLEAN, k \in BOOLEAN, o \in AzureOutcomes,
          c \in ModelTexts : FetchResolve(i, ep, k, o, c)
    \/ \E i \in 1..MaxMessages, how \in FetchFailures : FetchFail(i, how)

ChatNext ==
    \/ \E text \in Inputs : SetInput(text)
    \/ Submit
    \/ ClickPrompt
    \/ Respond
    \/ \E i \in 1..MaxMessages : AzureHangs(i)
    \/ OpenPanel
    \/ ClosePanel
    \/ \E q \in InitialQueries : SetInitialQuery(q)

----------------------------------------------------------------------------
(* AclResolver: expansion of nested group membership *)

PageSize == 1

Principals == {"g1", "g2", "g3"}

(* <<g, h>>: group g is a member of group h; groups may contain each other *)
Nestings == SUBSET {<<g, h>> \in Principals \X Principals : g # h}

ParentsOf(memberOf, g) == {h \in Principals : <<g, h>> \in memberOf}

InitAcl ==
    \E m \in Nestings, d \in SUBSET Principals :
        /\ d # {}
        /\ res = [phase |-> "expanding", memberOf |-> m, direct |-> d, found |-> d,
                  frontier |-> d, cur |-> "none", rest |-> {}, written |-> FALSE,
                  groupIds |-> {}]

(* The next group whose memberships are asked of the directory *)
StartExpand(g) ==
    /\ res.phase = "expanding"
    /\ res.cur = "none"
    /\ g \in res.frontier
    /\ res' = [res EXCEPT !.cur = g, !.frontier = @ \ {g},
                          !.rest = ParentsOf(res.memberOf, g)]
    /\ UNCHANGED <<syncVars, portalVars, panelVars, pageVars>>

(* One page of the answer; a continuation link follows while groups remain *)
FetchPage(page) ==
    /\ res.phase = "expanding"
    /\ res.cur # "none"
    /\ page \subseteq res.rest
    /\ Cardinality(page) = IF Cardinality(res.rest) < PageSize
                           THEN Cardinality(res.rest) ELSE PageSize
    /\ res' = [res EXCEPT !.found = @ \cup page,
                          !.frontier = @ \cup (page \ res.found),
                          !.rest = @ \ page,
                          !.cur = IF res.rest \ page = {} THEN "none" ELSE @]
    /\ UNCHANGED <<syncVars, portalVars, panelVars, pageVars>>

(* Nothing left to expand: the resolved groups are handed on *)
CompleteResolve ==
    /\ res.phase = "expanding"
    /\ res.cur = "none"
    /\ res.frontier = {}
    /\ res' = [res EXCEPT !.phase = "done", !.written = TRUE, !.groupIds = res.found]
    /\ UNCHANGED <<syncVars, portalVars, panelVars, pageVars>>

(* A directory call fails: the resolver fails silently and the document is
   indexed with empty allowed_groups *)
GraphFails ==
    /\ res.phase = "expanding"
    /\ res' = [res EXCEPT !.phase = "failed", !.written = TRUE, !.groupIds = {}]
    /\ UNCHANGED <<syncVars, portalVars, panelVars, pageVars>>

AclNext ==
    \/ \E g \in Principals : StartExpand(g)
    \/ \E page \in SUBSET Principals : FetchPage(page)
    \/ CompleteResolve
    \/ GraphFails

----------------------------------------------------------------------------
(* The search page (SearchPageInner) *)

MaxSearches == 3

Queries == {"", "leave"}

(* body of a POST to /api/search, numbered in the order of issue *)
Requests == [n : 1..MaxSearches, query : Queries, dept : Departments, docType : DocTypes]

NoResults == [of |-> 0, ok |-> TRUE]

NoPage == [mounted |-> FALSE, query |-> "", dept |-> "All", docType |-> "All",
           initialDept |-> "All", results |-> NoResults, loading |-> FALSE,
           pending |-> {}, issued |-> 0]

(* useState(initialQ), useState(initialDept), useState("All") from the URL *)
InitPage ==
    \E q \in Queries, d \in Departments :
        spage = [NoPage EXCEPT !.query = q, !.dept = d, !.initialDept = d]

(* The search effect on the state s of a render: doSearch up to its await *)
SearchEffect(s) ==
    IF s.query # "" \/ s.initialDept # "All"
    THEN [s EXCEPT !.loading = TRUE,
                   !.issued = @ + 1,
                   !.pending = @ \cup {[n |-> s.issued + 1, query |-> s.query,
                                        dept |-> s.dept, docType |-> s.docType]}]
    ELSE s

(* The effect runs after a render in which one of its dependencies changed *)
AfterRender(s) ==
    IF <<s.query, s.dept, s.docType, s.initialDept>>
         # <<spage.query, spage.dept, spage.docType, spage.initialDept>>
    THEN SearchEffect(s) ELSE s

Mount ==
    /\ ~spage.mounted
    /\ spage' = SearchEffect([spage EXCEPT !.mounted = TRUE])
    /\ UNCHANGED <<syncVars, portalVars, panelVars, aclVars>>

(* handleSearch: setQuery(inputValue), then router.push("/search?q=...")
   which leaves no dept parameter in the URL *)
HandleSearch(q) ==
    /\ spage.mounted
    /\ spage.issued < MaxSearches
    /\ spage' = AfterRender([spage EXCEPT !.query = q, !.initialDept = "All"])
    /\ UNCHANGED <<syncVars, portalVars, panelVars, aclVars>>

SetDept(d) ==
    /\ spage.mounted
    /\ spage.issued < MaxSearches
    /\ spage' = AfterRender([spage EXCEPT !.dept = d])
    /\ UNCHANGED <<syncVars, portalVars, panelVars, aclVars>>

SetDocType(ty) ==
    /\ spage.mounted
    /\ spage.issued < MaxSearches
    /\ spage' = AfterRender([spage EXCEPT !.docType = ty])
    /\ UNCHANGED <<syncVars, portalVars, panelVars, aclVars>>

(* A response arrives and parses: setResults(data.results), setLoading(false) *)
SearchArrives(r) ==
    /\ r \in spage.pending
    /\ spage' = [spage EXCEPT !.results = [of |-> r.n, ok |-> TRUE],
                              !.loading = FALSE,
                              !.pending = @ \ {r}]
    /\ UNCHANGED <<syncVars, portalVars, panelVars, aclVars>>

(* The fetch rejects or the body does not parse: setResults([]) *)
SearchFails(r) ==
    /\ r \in spage.pending
    /\ spage' = [spage EXCEPT !.results = [of |-> r.n, ok |-> FALSE],
                              !.loading = FALSE,
                              !.pending = @ \ {r}]
    /\ UNCHANGED <<syncVars, portalVars, panelVars, aclVars>>

PageNext ==
    \/ Mount
    \/ \E q \in Queries : HandleSearch(q)
    \/ \E d \in Departments : SetDept(d)
    \/ \E ty \in DocTypes : SetDocType(ty)
    \/ \E r \in Requests : SearchArrives(r)
    \/ \E r \in Requests : SearchFails(r)

NoResolve == [phase |-> "idle", memberOf |-> {}, direct |-> {}, found |-> {},
              frontier |-> {}, cur |-> "none", rest |-> {}, written |-> FALSE,
              groupIds |-> {}]

SyncInit == InitSync /\ InitPortal /\ InitPanel /\ res = NoResolve /\ spage = NoPage

SyncSpec == SyncInit /\ [][SyncNext]_vars

PortalSpec == SyncInit /\ [][PortalNext]_vars

ChatSpec == SyncInit /\ [][ChatNext]_vars

FairChatSpec == ChatSpec /\ WF_vars(Respond)

AclInit == InitSync /\ InitPortal /\ InitPanel /\ InitAcl /\ spage = NoPage

AclSpec == AclInit /\ [][AclNext]_vars

FairAclSpec == AclSpec /\ WF_vars(AclNext)

PageInit == InitSync /\ InitPortal /\ InitPanel /\ res = NoResolve /\ InitPage

PageSpec == PageInit /\ [][PageNext]_vars

----------------------------------------------------------------------------
(* Properties *)

GroupIdsOf(idx, d) == {c.groupIds : c \in ChunksOf(idx, d)}

(* C1: every chunk the search index returns to a user on the user's behalf has
   groupIds that intersect the user's groups (the query carries the
   allowed_groups filter built from those groups). *)
SecurityFilterComplete ==
    search.source = "azure" =>
        /\ search.filter.hasGroups
        /\ search.filter.groups = search.userGroups
        /\ \A c \in search.results : c.groupIds \cap search.userGroups # {}

(* C2: when AclResolver cannot complete for a document, the groupIds already
   indexed on the document's chunks are left unchanged (never emptied, never
   widened). *)
AclFailureKeepsGroupIds ==
    [][\A t \in Triggers, p \in Positions :
          (WriteChunks(t, p) /\ ~run[t].aclOk[p] /\ ChunksOf(index, feed[p].doc) # {})
              => GroupIdsOf(index', feed[p].doc) = GroupIdsOf(index, feed[p].doc)]_vars

(* C3: the cursor is replaced only once the batch has settled, and only moves
   over items the run has applied; a crash leaves it as it was; a run starts
   at the cursor and takes everything after it; so the index always holds, for
   each document, the state of its last change at or before the cursor, or a
   later one. *)
CursorCovered ==
    \A d \in Docs :
        LET P == {p \in PositionsOf(d) : p <= cursor} IN
        P # {} =>
            \E q \in PositionsOf(d) :
                /\ q >= Max(P)
                /\ Content(ChunksOf(index, d)) = Content(NewChunks(q, {}))

CursorAfterBatchApplied ==
    /\ []CursorCovered
    /\ [][/\ cursor' # cursor =>
                \E t \in Triggers :
                    /\ run[t].active
                    /\ BatchSettled(t)
                    /\ cursor' > cursor
                    /\ \A p \in (cursor + 1)..cursor' : run[t].st[p] = "applied"
          /\ \A t \in Triggers : Crash(t) => cursor' = cursor
          /\ \A t \in Triggers :
                StartRun(t) =>
                    /\ run'[t].from = cursor + 1
                    /\ run'[t].upto = Len(feed)
                    /\ \A p \in (cursor + 1)..Len(feed) : run'[t].st[p] = "pending"]_vars

(* C3 witness: an item already written to the index by a run that crashed is
   pending again in the next run, the cursor still where it was. *)
CrashReprocessed ==
    \E t \in Triggers, p \in Positions :
        /\ run[t].active
        /\ p \in Batch(t)
        /\ run[t].st[p] = "pending"
        /\ ~feed[p].deleted
        /\ cursor = 0
        /\ report = 0
        /\ Content(ChunksOf(index, feed[p].doc)) = Content(NewChunks(p, {}))

(* C4: after a batch with failed items the cursor stands immediately before
   the oldest failed item, not at the batch tail: everything before it was
   applied and is not in the next batch, the failed item and every later item
   are pending again in the next run. *)
CursorBeforeOldestFailed ==
    [][/\ \A t \in Triggers :
              Finish(t) =>
                  IF \E p \in Batch(t) : run[t].st[p] = "failed"
                  THEN /\ cursor' < run[t].upto
                       /\ run[t].st[cursor' + 1] = "failed"
                       /\ \A p \in run[t].from..cursor' : run[t].st[p] = "applied"
                  ELSE cursor' = run[t].upto
       /\ \A t \in Triggers :
              StartRun(t) =>
                  \A p \in 1..Len(feed) :
                      run'[t].st[p] = IF p > cursor THEN "pending" ELSE "none"]_vars

(* C4 witness: the oldest failed item of the last batch was not its first
   item; the next run starts at it, has applied it this time, and has later
   items in its batch. *)
FailedItemRetried ==
    \E t \in Triggers :
        /\ report >= 2
        /\ cursor = report - 1
        /\ run[t].active
        /\ run[t].from = report
        /\ run[t].upto > report
        /\ run[t].st[report] = "applied"

(* C5: within one document's ingestion ACL resolution has completed
   successfully before the document's chunks are written, and the chunks of
   the new version carry the new ACL. *)
AclResolvedBeforeChunks ==
    [][\A t \in Triggers, p \in Positions :
          WriteChunks(t, p) =>
              /\ run[t].aclOk[p]
              /\ \A c \in ChunksOf(index', feed[p].doc) : c.groupIds = feed[p].groups]_vars

(* C6: the cursor is written by one run at a time: the writer's batch has
   settled, it read the cursor it replaces, and no other run of the library
   is at work. *)
SingleCursorWriter ==
    [][/\ cursor' # cursor => \E t \in Triggers : Finish(t)
       /\ \A t \in Triggers :
              Finish(t) =>
                  /\ BatchSettled(t)
                  /\ run[t].from = cursor + 1
                  /\ \A u \in Triggers \ {t} : ~run[u].active]_vars

(* C6 witness: a run whose batch has settled is about to advance the cursor
   while the other trigger cannot start. *)
WriterHoldsLease ==
    \E t \in Triggers, u \in Triggers :
        /\ u # t
        /\ lease = t
        /\ run[t].active
        /\ BatchSettled(t)
        /\ NewToken(t) > cursor
        /\ ~MayStart(u)

(* C7: once a run has applied the deletion of a document, through the end of
   that cycle and from then on whenever the cursor has passed the deletion,
   the index holds no chunk of the document. *)
DeletionLeavesNoChunks ==
    /\ \A t \in Triggers, p \in Positions :
          (p \in Batch(t) /\ feed[p].deleted /\ run[t].st[p] = "applied")
              => ChunksOf(index, feed[p].doc) = {}
    /\ \A p \in 1..cursor : feed[p].deleted => ChunksOf(index, feed[p].doc) = {}

(* C7 witness: a settled batch that held an upsert and the deletion of the
   same document, both applied. *)
UpsertAndDeleteInOneBatch ==
    \E t \in Triggers, q \in Positions, p \in Positions :
        /\ q \in Batch(t) /\ p \in Batch(t) /\ q < p
        /\ feed[q].doc = feed[p].doc
        /\ ~feed[q].deleted /\ feed[p].deleted
        /\ run[t].st[q] = "applied" /\ run[t].st[p] = "applied"
        /\ BatchSettled(t)

(* C8: ingesting a document version that is already indexed leaves the same
   chunk ids with the same content and no duplicate record; with the same
   groups resolved the index does not change at all. *)
NoDuplicateIds == \A c1 \in index, c2 \in index : c1.id = c2.id => c1 = c2

IdempotentUpsert ==
    /\ []NoDuplicateIds
    /\ [][\A t \in Triggers, p \in Positions :
             (/\ WriteChunks(t, p)
              /\ Content(ChunksOf(index, feed[p].doc)) = Content(NewChunks(p, {})))
                 => /\ Content(index') = Content(index)
                    /\ Cardinality(index') = Cardinality(index)
                    /\ GroupIdsOf(index, feed[p].doc) = {run[t].acl[p]}
                          => index' = index]_vars

(* C8 witness: a run is about to write a document version whose chunks are
   in the index already. *)
IngestingIndexedVersion ==
    \E t \in Triggers, p \in Positions :
        /\ run[t].active
        /\ p \in Batch(t)
        /\ run[t].st[p] = "acl"
        /\ Content(ChunksOf(index, feed[p].doc)) = Content(NewChunks(p, {}))

(* C9: after a document is written, the chunk ids indexed for it are exactly
   the ids of the new chunk set. *)
ShrinkDeletesStaleChunks ==
    [][\A t \in Triggers, p \in Positions :
          WriteChunks(t, p) =>
              Ids(ChunksOf(index', feed[p].doc)) = Ids(NewChunks(p, {}))]_vars

(* C9 witness: in one batch a document was ingested and then ingested again
   with fewer chunks, and the index holds the ids of the smaller set. *)
DocumentShrunk ==
    \E t \in Triggers, q \in Positions, p \in Positions :
        /\ q \in Batch(t) /\ p \in Batch(t) /\ q < p
        /\ feed[q].doc = feed[p].doc
        /\ ~feed[q].deleted /\ ~feed[p].deleted
        /\ feed[q].n > feed[p].n
        /\ run[t].st[q] = "applied" /\ run[t].st[p] = "applied"
        /\ Ids(ChunksOf(index, feed[p].doc)) = Ids(NewChunks(p, {}))

(* C10: when retrieval returned no chunk for the request, the fixed fallback
   message is the response and the language model was not called. *)
ZeroChunksFallbackWithoutModel ==
    (chat.handled /\ chat.retrieved = {}) =>
        (chat.response = FallbackMessage /\ ~chat.called)

(* C11: every assistant message the chat panel shows for a question is a
   cited answer, the fixed fallback message or the sensitive-topic redirect;
   no failure puts any other message in front of the user. *)
UserSeesAnswerFallbackOrRedirect ==
    \A i \in 2..Len(panel.messages) :
        panel.messages[i].role = "assistant" =>
            \/ panel.messages[i].kind = "assistant" /\ panel.messages[i].citations > 0
            \/ panel.messages[i].content = FallbackMessage
            \/ panel.messages[i].content = SensitiveRedirect

(* C12: every answer /api/chat returns carries at least one source citation,
   from Azure as from mock data. *)
AnswersCarryCitations ==
    chat.handled => chat.citations > 0

(* C13: for a search request with a department and a docType other than
   "All", every result returned has that department and that docType, from
   Azure as from mock data. *)
ResultsMatchBothFilters ==
    (search.handled /\ search.department # "All" /\ search.docType # "All") =>
        \A r \in search.results :
            r.department = search.department /\ r.docType = search.docType

(* C14: a route whose Azure endpoint or key is not set makes no external
   call and returns its mock data with source "mock". *)
MockWithoutCredentials ==
    /\ (search.handled /\ ~(search.endpoint /\ search.key)) =>
          /\ ~search.called
          /\ search.source = "mock"
          /\ search.results = MockSearch(search.department, search.docType)
    /\ (chat.handled /\ ~(chat.endpoint /\ chat.key)) =>
          /\ ~chat.called
          /\ chat.source = "mock"
          /\ chat.response = MockChatResponse(chat.message).response
          /\ chat.citations = MockChatResponse(chat.message).citations

(* C14 witness: both routes have answered with only one of the two settings
   present. *)
HalfConfiguredRoutes ==
    /\ search.handled /\ search.endpoint /\ ~search.key
    /\ chat.handled /\ ~chat.endpoint /\ chat.key
    /\ search.source = "mock" /\ chat.source = "mock"

(* C15: an item recorded as failed is skipped: its failure changes neither
   the index nor any other item, and every other pending item of the batch
   whose earlier same-document items are applied or failed can still be
   processed; the run ends with every other item applied. *)
OtherItemsCanProceed ==
    \A t \in Triggers, p \in Positions, q \in Positions :
        (/\ p \in Batch(t) /\ q \in Batch(t)
         /\ run[t].st[p] = "failed"
         /\ run[t].st[q] = "pending"
         /\ \A r \in Batch(t) : (r < q /\ feed[r].doc = feed[q].doc)
                                   => run[t].st[r] \in {"applied", "failed"})
            => ENABLED (ResolveAclOk(t, q) \/ ApplyDelete(t, q))

FailedItemDoesNotBlock ==
    /\ []OtherItemsCanProceed
    /\ [][/\ \A t \in Triggers, p \in Positions :
                ItemFail(t, p) =>
                    /\ index' = index
                    /\ \A q \in Positions \ {p} : run'[t].st[q] = run[t].st[q]
          /\ \A t \in Triggers :
                Finish(t) =>
                    /\ report' = OldestFailed(t)
                    /\ \A q \in Batch(t) :
                          run[t].st[q] # "failed" => run[t].st[q] = "applied"]_vars

(* C15 witness: a settled batch with a failed item and a later item that was
   applied, whose chunks are in the index. *)
AppliedAfterFailedItem ==
    \E t \in Triggers, p \in Positions, q \in Positions :
        /\ p \in Batch(t) /\ q \in Batch(t) /\ p < q
        /\ run[t].st[p] = "failed"
        /\ run[t].st[q] = "applied"
        /\ ~feed[q].deleted
        /\ Content(ChunksOf(index, feed[q].doc)) = Content(NewChunks(q, {}))
        /\ BatchSettled(t)

(* C16: within one run an item is attempted at most MaxAttempts times: a
   pending item has failed fewer than MaxAttempts times, a failed item exactly
   MaxAttempts times and it is never touched again in that run; every step of
   a run strictly decreases the work that remains, a step is possible while
   work remains, and when none remains every item is applied or failed and
   the run can finish. *)
Weight(r, p) ==
    CASE r.st[p] = "pending" -> 2 + (MaxAttempts - r.att[p])
      [] r.st[p] = "acl" -> 1
      [] OTHER -> 0

RECURSIVE SumWeights(_, _)
SumWeights(r, S) ==
    IF S = {} THEN 0
    ELSE LET p == Min(S) IN Weight(r, p) + SumWeights(r, S \ {p})

Remaining(r) == SumWeights(r, Positions)

AttemptsWithinBound ==
    \A t \in Triggers, p \in Positions :
        /\ run[t].att[p] <= MaxAttempts
        /\ run[t].st[p] = "failed" => run[t].att[p] = MaxAttempts
        /\ run[t].st[p] \in {"pending", "acl"} => run[t].att[p] < MaxAttempts

RunCanAlwaysStep ==
    \A t \in Triggers :
        run[t].active =>
            IF Remaining(run[t]) = 0
            THEN BatchSettled(t) /\ ENABLED Finish(t)
            ELSE ENABLED (\E p \in Positions :
                            \/ ResolveAclOk(t, p)
                            \/ WriteChunks(t, p)
                            \/ ApplyDelete(t, p))

BoundedAttempts ==
    /\ []AttemptsWithinBound
    /\ []RunCanAlwaysStep
    /\ [][\A t \in Triggers :
             (run[t].active /\ run'[t].active /\ run'[t] # run[t]) =>
                 /\ Remaining(run'[t]) < Remaining(run[t])
                 /\ \A p \in Positions :
                       run[t].st[p] \in {"applied", "failed"}
                           => run'[t].st[p] = run[t].st[p]]_vars

(* C16 witness: a settled batch holding an item that failed MaxAttempts
   times, next to an item of the same run that was applied. *)
PersistentFailure ==
    \E t \in Triggers, p \in Positions, q \in Positions :
        /\ p \in Batch(t) /\ q \in Batch(t)
        /\ run[t].st[p] = "failed"
        /\ run[t].att[p] = MaxAttempts
        /\ run[t].st[q] = "applied"
        /\ BatchSettled(t)

(* C17: every query-time external call carries a timeout, so a question
   that was sent always eventually receives its response: the panel does not
   stay loading forever when the model service does not answer. *)
QuestionEventuallyAnswered == panel.loading ~> ~panel.loading

(* C18: in every state of the index all chunks of one document carry the
   same groupIds, and they are the groups resolved for the document version
   the chunks were written from (the document's latest resolved ACL). *)
ChunksCarryLatestAcl ==
    \A d \in Docs :
        /\ Cardinality(GroupIdsOf(index, d)) <= 1
        /\ \A c \in ChunksOf(index, d) : c.groupIds = feed[c.ver].groups

(* C19: the resolver returns exactly the transitive closure of group
   membership of the directly assigned principals, the expansion terminates
   for every nesting graph (cycles and continuation pages included), and a
   resolution that does not fully succeed writes no resolved ACL. *)
RECURSIVE Closure(_, _)
Closure(memberOf, S) ==
    LET N == S \cup {h \in Principals : \E g \in S : <<g, h>> \in memberOf}
    IN IF N = S THEN S ELSE Closure(memberOf, N)

AclResolutionExact ==
    /\ [](res.phase = "done" =>
             res.written /\ res.groupIds = Closure(res.memberOf, res.direct))
    /\ [](res.phase = "failed" => ~res.written)
    /\ <>(res.phase \in {"done", "failed"})

(* C20: a query passes the states Received, GroupsResolved, Retrieved,
   Reranked in that order and ends in exactly one of Done or Failed: no search
   is issued before the user's groups are resolved, no state is skipped or
   visited twice. *)
QueryStates == <<"Received", "GroupsResolved", "Retrieved", "Reranked", "Done">>

QueryStatesInOrder ==
    search.handled =>
        \/ search.trace = QueryStates
        \/ \E n \in 1..4 : search.trace = SubSeq(QueryStates, 1, n) \o <<"Failed">>

(* C21: with Azure configured, a call that throws or returns a non-OK
   status makes the route answer with its mock response and source "mock",
   never an error; source "azure" is returned only after an OK Azure
   response. *)
FallsBackToMock ==
    /\ /\ (search.handled /\ search.called /\ search.source # "azure") =>
                /\ search.source = "mock"
                /\ search.results = MockSearch(search.department, search.docType)
       /\ (chat.handled /\ chat.called /\ chat.source # "azure") =>
                /\ chat.source = "mock"
                /\ chat.response = MockChatResponse(chat.message).response
                /\ chat.citations = MockChatResponse(chat.message).citations
    /\ search.source = "azure" <=> (search.called /\ search.outcome = "ok")
    /\ chat.source = "azure" <=> (chat.called /\ chat.outcome = "ok")

(* C21 witness: both routes called Azure and answered from mock data. *)
BothRoutesFellBack ==
    /\ search.handled /\ search.called /\ search.source = "mock"
    /\ search.outcome = "throws"
    /\ chat.handled /\ chat.called /\ chat.source = "mock"
    /\ chat.outcome = "notOk"

(* C22: once every outstanding search request has completed, the results
   on display are those of the request issued last, in whatever order the
   responses arrived. *)
LatestSearchDisplayed ==
    (spage.pending = {} /\ spage.issued > 0) => spage.results.of = spage.issued

(* C23: the chat panel has at most one request in flight, and loading says
   whether there is one; a sendMessage with blank text or while loading issues
   no request and leaves messages, input and loading as they were. *)
RejectedSendChangesNothing ==
    \A q \in InitialQueries :
        (/\ (OpenPanel \/ SetInitialQuery(q))
         /\ shell'.sent /\ ~shell.sent
         /\ (panel.loading \/ Trim(shell'.initialQuery) = ""))
            => (panel' = panel /\ inflight' = inflight)

OneRequestInFlight ==
    /\ [](Len(inflight) <= 1 /\ (panel.loading <=> Len(inflight) = 1))
    /\ [][RejectedSendChangesNothing]_vars

(* C23 witness: the effect handed its query to sendMessage while a request
   was loading, and the query is not among the messages. *)
SendRejectedWhileLoading ==
    /\ shell.sent
    /\ panel.loading
    /\ Len(inflight) = 1
    /\ \A i \in 1..Len(panel.messages) :
          panel.messages[i].content # Trim(shell.initialQuery)

(* C24: every query with text handed to the panel as initialQuery is, once
   the panel is open, eventually sent to /api/chat as a user message, also
   when a request was loading at the moment the query arrived. *)
InitialQueryEventuallySent ==
    \A q \in InitialQueries :
        Trim(q) # "" =>
            ((shell.open /\ shell.initialQuery = q)
                ~> (\E i \in 1..Len(panel.messages) :
                       /\ panel.messages[i].role = "user"
                       /\ panel.messages[i].content = Trim(q)))

(* C25: the initial-query effect calls sendMessage at most once per mount:
   once it has, no opening, closing or change of initialQuery makes it send
   again, and its re-runs after other renders find its condition false. *)
EffectSendsOnce ==
    /\ []~EffectFires(shell)
    /\ [][/\ shell.sent => shell'.sent
          /\ \A q \in InitialQueries :
                (shell.sent /\ (OpenPanel \/ ClosePanel \/ SetInitialQuery(q)))
                    => (panel' = panel /\ inflight' = inflight)]_vars

(* C25 witness: the first initial query was sent and answered, the panel was
   closed and opened again with another initial query, which was not sent. *)
SecondInitialQueryNotSent ==
    /\ shell.sent
    /\ shell.open
    /\ shell.initialQuery = "other"
    /\ Len(panel.messages) = 3
    /\ panel.messages[2].content = "pto"
    /\ ~panel.loading

(* C26: messages is the welcome message followed by strictly alternating
   user and assistant messages; there is one more user message than
   assistant messages after the welcome exactly while loading, and equally
   many otherwise. *)
UserCount == Cardinality({i \in 2..Len(panel.messages) : panel.messages[i].role = "user"})

AssistantCount ==
    Cardinality({i \in 2..Len(panel.messages) : panel.messages[i].role = "assistant"})

MessagesAlternate ==
    /\ panel.messages[1] = WelcomeMessage
    /\ \A i \in 2..Len(panel.messages) :
          panel.messages[i].role = IF i % 2 = 0 THEN "user" ELSE "assistant"
    /\ UserCount - AssistantCount = IF panel.loading THEN 1 ELSE 0

(* C26 witness: two exchanges, the first ended by the apology, the second by
   a reply. *)
FailureThenReply ==
    /\ Len(panel.messages) = 5
    /\ panel.messages[3].kind = "error"
    /\ panel.messages[5].kind = "assistant"
    /\ ~panel.loading

(* C27: the settling of an accepted sendMessage's fetch, by a reply or by a
   failure, appends exactly one assistant message (the reply or the apology)
   and sets loading to false; an accepted send sets loading; and a request
   whose fetch settles does so eventually. *)
SettleAppendsOneMessage ==
    /\ Len(inflight') < Len(inflight) =>
          /\ Len(panel'.messages) = Len(panel.messages) + 1
          /\ SubSeq(panel'.messages, 1, Len(panel.messages)) = panel.messages
          /\ panel'.messages[Len(panel'.messages)].role = "assistant"
          /\ panel'.messages[Len(panel'.messages)].kind \in {"assistant", "error"}
          /\ ~panel'.loading
    /\ Len(inflight') > Len(inflight) => panel'.loading
    /\ (panel.loading /\ inflight' = inflight) => panel'.loading

EverySendSettles ==
    /\ [][SettleAppendsOneMessage]_vars
    /\ panel.loading ~> (~panel.loading \/ \E i \in 1..Len(inflight) : inflight[i].hung)

(* C27 witness: a request ended in the apology and the panel is idle again. *)
ApologyShown ==
    /\ Len(panel.messages) = 3
    /\ panel.messages[3] = ErrorMessage
    /\ ~panel.loading
    /\ inflight = <<>>

====
